---- MODULE Spec2Model ----
(***************************************************************************)
(* RustyCalculator (src/src/calc.rs): a calculator whose every computed    *)
(* value is a node of a history tree.  The model has three layers:         *)
(*   1. f64 values, kept as decimal floating-point numbers m * 10^e with   *)
(*      Precision significant digits, plus NaN and the two infinities;     *)
(*   2. the heap of reference-counted nodes (Rc / Weak), with the drop of  *)
(*      a node as soon as no strong reference reaches it;                  *)
(*   3. one action per public method of RustyCalculator.  An arithmetic    *)
(*      method that passes its domain check takes two steps: the           *)
(*      optimistic insert, then checked_value with commit or rollback.     *)
(***************************************************************************)
EXTENDS Integers, Sequences, FiniteSets, TLC

(***************************************************************************)
(* Layer 1: f64.                                                           *)
(***************************************************************************)

\* Bound of the model: the significant decimal digits a value keeps (an f64 keeps
\* 53 bits, between 15 and 17 decimal digits).
Precision == 3
\* Largest and smallest decimal order of magnitude of a finite nonzero f64:
\* f64::MAX is 1.797...e308, the least positive f64 is 4.94...e-324.
MaxExp10 == 308
MinExp10 == -324

RECURSIVE Pow10(_)
Pow10(n) == IF n <= 0 THEN 1 ELSE 10 * Pow10(n - 1)

AbsInt(x) == IF x < 0 THEN -x ELSE x

Sgn(x) == IF x < 0 THEN -1 ELSE IF x = 0 THEN 0 ELSE 1

MinInt(a, b) == IF a < b THEN a ELSE b

RECURSIVE NumDigits(_)
NumDigits(n) == IF n < 10 THEN 1 ELSE 1 + NumDigits(n \div 10)

Fin(m, e) == [k |-> "fin", m |-> m, e |-> e]
NaN == [k |-> "nan", m |-> 0, e |-> 0]
Inf(s) == [k |-> "inf", m |-> s, e |-> 0]
Zero == Fin(0, 0)
One == Fin(1, 0)

IsFinite(v) == v.k = "fin"
IsNaN(v) == v.k = "nan"
IsInf(v) == v.k = "inf"
IsZero(v) == v.k = "fin" /\ v.m = 0

\* Decimal order of magnitude of a finite nonzero value: floor(log10(|v|)).
Top(v) == v.e + NumDigits(AbsInt(v.m)) - 1

\* The leading Precision digits of a finite nonzero value, as an integer.
Lead(v) == AbsInt(v.m) * Pow10(Precision - NumDigits(AbsInt(v.m)))

RECURSIVE Strip(_, _)
Strip(m, e) == IF m # 0 /\ m % 10 = 0 THEN Strip(m \div 10, e + 1) ELSE <<m, e>>

\* Rounding of an exact result m * 10^e to the nearest representable value;
\* overflow gives an infinity, underflow gives zero.
Norm(m, e) ==
  LET s == Sgn(m)
      a == AbsInt(m)
      d == NumDigits(a) - Precision
      r == IF d > 0 THEN <<(a + 5 * Pow10(d - 1)) \div Pow10(d), e + d>> ELSE <<a, e>>
      t == Strip(r[1], r[2])
      v == Fin(s * t[1], t[2])
  IN  IF a = 0 THEN Zero
      ELSE IF Top(v) > MaxExp10 \/ (Top(v) = MaxExp10 /\ Lead(v) >= 18 * Pow10(Precision - 2)) THEN Inf(s)
      ELSE IF Top(v) < MinExp10 THEN Zero
      ELSE v

NegV(v) == IF v.k = "nan" THEN v ELSE [v EXCEPT !.m = -v.m]

AbsV(v) == IF v.k = "nan" THEN v ELSE [v EXCEPT !.m = AbsInt(v.m)]

AddFin(a, b) ==
  IF a.m = 0 THEN b
  ELSE IF b.m = 0 THEN a
  ELSE IF Top(b) < Top(a) - Precision - 1 THEN a
  ELSE IF Top(a) < Top(b) - Precision - 1 THEN b
  ELSE LET lo == MinInt(a.e, b.e)
       IN  Norm(a.m * Pow10(a.e - lo) + b.m * Pow10(b.e - lo), lo)

\* a + b
AddV(a, b) ==
  IF IsNaN(a) \/ IsNaN(b) THEN NaN
  ELSE IF IsInf(a) /\ IsInf(b) THEN (IF a.m = b.m THEN a ELSE NaN)
  ELSE IF IsInf(a) THEN a
  ELSE IF IsInf(b) THEN b
  ELSE AddFin(a, b)

\* a - b
SubV(a, b) == AddV(a, NegV(b))

\* a * b
MulV(a, b) ==
  IF IsNaN(a) \/ IsNaN(b) THEN NaN
  ELSE IF IsInf(a) \/ IsInf(b)
       THEN (IF a.m = 0 \/ b.m = 0 THEN NaN ELSE Inf(Sgn(a.m) * Sgn(b.m)))
  ELSE Norm(a.m * b.m, a.e + b.e)

\* a / b
DivV(a, b) ==
  IF IsNaN(a) \/ IsNaN(b) THEN NaN
  ELSE IF IsInf(a) THEN (IF IsInf(b) THEN NaN
                         ELSE Inf(a.m * (IF b.m < 0 THEN -1 ELSE 1)))
  ELSE IF IsInf(b) THEN Zero
  ELSE IF b.m = 0 THEN (IF a.m = 0 THEN NaN ELSE Inf(Sgn(a.m)))
  ELSE LET g == 9 - NumDigits(AbsInt(a.m))
           q == (AbsInt(a.m) * Pow10(g)) \div AbsInt(b.m)
       IN  Norm(Sgn(a.m) * Sgn(b.m) * q, a.e - b.e - g)

\* a < b, a <= b, a == b as f64 compares them: false whenever a NaN is involved.
LtV(a, b) ==
  /\ ~IsNaN(a) /\ ~IsNaN(b)
  /\ a # b
  /\ LET d == SubV(a, b) IN IF IsInf(d) THEN d.m < 0 ELSE d.m < 0

EqV(a, b) == ~IsNaN(a) /\ ~IsNaN(b) /\ a = b

LeV(a, b) == LtV(a, b) \/ EqV(a, b)

RECURSIVE ISqrtIn(_, _, _)
ISqrtIn(n, lo, hi) ==
  IF hi - lo <= 1 THEN lo
  ELSE LET mid == (lo + hi) \div 2
       IN  IF mid * mid <= n THEN ISqrtIn(n, mid, hi) ELSE ISqrtIn(n, lo, mid)

\* floor(sqrt(n)) for 0 <= n < 10^9
ISqrt(n) == ISqrtIn(n, 0, 31623)

\* a.sqrt()
SqrtV(a) ==
  IF IsNaN(a) THEN NaN
  ELSE IF IsInf(a) THEN (IF a.m > 0 THEN a ELSE NaN)
  ELSE IF a.m < 0 THEN NaN
  ELSE IF a.m = 0 THEN Zero
  ELSE LET k0 == 9 - NumDigits(a.m)
           k == IF (a.e - k0) % 2 = 0 THEN k0 ELSE k0 - 1
       IN  Norm(ISqrt(a.m * Pow10(k)), (a.e - k) \div 2)

RECURSIVE Log2Floor(_)
Log2Floor(n) == IF n < 2 THEN 0 ELSE 1 + Log2Floor(n \div 2)

RECURSIVE Pow2(_)
Pow2(n) == IF n <= 0 THEN 1 ELSE 2 * Pow2(n - 1)

\* a.ln(): ln(m * 10^e) = ln(m / 2^j) + j ln 2 + e ln 10, in fixed point with
\* four decimals; ln y for 1 <= y < 2 by the series 2 (z + z^3/3 + z^5/5 + z^7/7),
\* z = (y - 1) / (y + 1).
LnV(a) ==
  IF IsNaN(a) THEN NaN
  ELSE IF IsInf(a) THEN (IF a.m > 0 THEN a ELSE NaN)
  ELSE IF a.m < 0 THEN NaN
  ELSE IF a.m = 0 THEN Inf(-1)
  ELSE IF a = One THEN Zero
  ELSE LET S == 10000
           j == Log2Floor(a.m)
           y == (a.m * S) \div Pow2(j)
           z == ((y - S) * S) \div (y + S)
           z2 == (z * z) \div S
           t3 == (z * z2) \div S
           t5 == (t3 * z2) \div S
           t7 == (t5 * z2) \div S
           lny == 2 * (z + t3 \div 3 + t5 \div 5 + t7 \div 7)
       IN  Norm(lny + j * 6931 + a.e * 23026, -4)

RECURSIVE IntPow(_, _)
IntPow(a, n) ==
  IF n = 0 THEN One
  ELSE IF n % 2 = 0 THEN LET h == IntPow(a, n \div 2) IN MulV(h, h)
  ELSE MulV(a, IntPow(a, n - 1))

\* The exponents powf is modelled for: the integers, the half-integers and the
\* non-finite values.
PowModelled(x) == ~IsFinite(x) \/ x.e >= 0 \/ (x.e = -1 /\ x.m % 5 = 0)

\* a.powf(x)
PowV(a, x) ==
  IF IsZero(x) THEN One
  ELSE IF a = One THEN One
  ELSE IF IsNaN(a) \/ IsNaN(x) THEN NaN
  ELSE IF IsInf(x) \/ (IsFinite(x) /\ x.e > 6)
       THEN (IF AbsV(a) = One THEN One
             ELSE IF LtV(One, AbsV(a)) = (x.m > 0) THEN Inf(1) ELSE Zero)
  ELSE IF x.e >= 0
       THEN LET n == AbsInt(x.m) * Pow10(x.e)
            IN  IF x.m > 0 THEN IntPow(a, n) ELSE DivV(One, IntPow(a, n))
  ELSE IF a = Inf(-1) THEN (IF x.m > 0 THEN Inf(1) ELSE Zero)
  ELSE CASE x.e = -1 /\ x.m % 5 = 0 ->
            LET n == AbsInt(x.m) \div 5
                r == SqrtV(a)
            IN  IF x.m > 0 THEN IntPow(r, n) ELSE DivV(One, IntPow(r, n))

\* f64::MAX / 2.0 < |v| for a finite v
AboveHalfMax(v) ==
  /\ v.m # 0
  /\ \/ Top(v) > MaxExp10 - 1
     \/ Top(v) = MaxExp10 - 1 /\ Lead(v) >= 899 * Pow10(Precision - 3)

\* val.abs().log10().floor() as i32, for a finite nonzero val
Log10Floor(v) == Top(v)

(***************************************************************************)
(* Layer 2: the nodes.  heap maps each allocated node to its fields; a     *)
(* child_item entry is a strong reference (Rc), a parent entry is None or  *)
(* a weak one (Weak).  A node is dropped as soon as no chain of strong     *)
(* references from root, current or the cache reaches it.                  *)
(***************************************************************************)

\* Bounds of the model: nodes that can be allocated at once, snapshots kept.
MaxNodes == 3
MaxCache == 2

NodeIds == 1 .. MaxNodes
\* Option::None of Node.parent
None == 0
\* Result::Ok(()); an Err is the name of its CalculationError
Ok == "Ok"

VARIABLES
  heap,     \* the allocated nodes: id -> [value, parent, child_item]
  root,     \* RustyCalculator.root
  current,  \* RustyCalculator.current
  cache,    \* RustyCalculator.cache
  pc,       \* "idle", or "validate" between the insert and checked_value
  pend,     \* the running arithmetic call: prev, candidate, the state it found
  call,     \* the last call made: the method, its argument, the console line
            \* it read; for a call that can start a round trip (go_backwards,
            \* go_forwards, reset) the node current was at; for clear_cache
            \* the number of snapshots it found; and whether the call came
            \* right after its successful counterpart
  ret,      \* what the last call returned; "pending" while it runs
  acc       \* a plain f64 accumulator replaying the arithmetic calls, kept
            \* while every call since new() was arithmetic and returned Ok

vars == <<heap, root, current, cache, pc, pend, call, ret, acc>>

\* The calculator as one value: the struct and the nodes it can reach.
St == [heap |-> heap, root |-> root, current |-> current, cache |-> cache]

Range(q) == {q[i] : i \in 1 .. Len(q)}

Node(v, p) == [value |-> v, parent |-> p, child_item |-> <<>>]

RECURSIVE ReachFrom(_, _)
ReachFrom(h, S) ==
  LET T == S \cup UNION {Range(h[n].child_item) : n \in S \cap DOMAIN h}
  IN  IF T = S THEN S ELSE ReachFrom(h, T)

\* The nodes some strong reference keeps alive.
Live(st) == ReachFrom(st.heap, {st.root, st.current} \cup Range(st.cache)) \cap DOMAIN st.heap

\* Rc's drop: every node without a strong reference is freed.
Drop(st) == [st EXCEPT !.heap = [n \in Live(st) |-> st.heap[n]]]

\* Weak::upgrade succeeds while the node is allocated.
Upgrade(h, w) == w \in DOMAIN h

\* Rc::new: the address of a new allocation; one still named by a weak
\* reference is not handed out again.
FreeIds(h) == {n \in NodeIds : n \notin DOMAIN h /\ \A k \in DOMAIN h : h[k].parent # n}

FreshId(h) == CHOOSE n \in FreeIds(h) : \A k \in FreeIds(h) : n <= k

CanAlloc(h) == FreeIds(h) # {}

\* The insert with parent: None in the new node.
InsertNodeNoParent(st, v) ==
  LET n == FreshId(st.heap)
      c == st.current
      h == [k \in DOMAIN st.heap \cup {n} |->
              IF k = n THEN Node(v, None)
              ELSE IF k = c THEN [st.heap[c] EXCEPT !.child_item = Append(@, n)]
              ELSE st.heap[k]]
  IN  [st EXCEPT !.heap = h, !.current = n]

\* The insert with the new node put in place of the children already there.
InsertNodeReplaces(st, v) ==
  LET n == FreshId(st.heap)
      c == st.current
      h == [k \in DOMAIN st.heap \cup {n} |->
              IF k = n THEN Node(v, c)
              ELSE IF k = c THEN [st.heap[c] EXCEPT !.child_item = <<n>>]
              ELSE st.heap[k]]
  IN  Drop([st EXCEPT !.heap = h, !.current = n])

\* Node { value, parent: Some(Rc::downgrade(&self.current)), child_item: Vec::new() },
\* pushed onto current's child_item, and current moved to it.
InsertNode(st, v) ==
  LET n == FreshId(st.heap)
      c == st.current
      h == [k \in DOMAIN st.heap \cup {n} |->
              IF k = n THEN Node(v, c)
              ELSE IF k = c THEN [st.heap[c] EXCEPT !.child_item = Append(@, n)]
              ELSE st.heap[k]]
  IN  [st EXCEPT !.heap = h, !.current = n]

\* delete without the retain on the parent's child_item: the deleted node stays
\* a child.
DeleteOfNoRetain(st) ==
  LET p == st.heap[st.current].parent
  IN  IF p # None /\ Upgrade(st.heap, p)
      THEN [st |-> Drop([st EXCEPT !.current = p]), res |-> Ok]
      ELSE [st |-> st, res |-> "CannotDeleteRoot"]

\* delete emptying the parent's child_item instead of removing the one child.
DeleteOfAllChildren(st) ==
  LET p == st.heap[st.current].parent
  IN  IF p # None /\ Upgrade(st.heap, p)
      THEN [st |-> Drop([st EXCEPT !.heap[p].child_item = <<>>, !.current = p]),
            res |-> Ok]
      ELSE [st |-> st, res |-> "CannotDeleteRoot"]

\* GeneralOperations::delete as a function of the state: the state and the result.
DeleteOf(st) ==
  LET c == st.current
      p == st.heap[c].parent
  IN  IF p # None /\ Upgrade(st.heap, p)
      THEN [st |-> Drop([st EXCEPT
                           !.heap[p].child_item = SelectSeq(@, LAMBDA x : x # c),
                           !.current = p]),
            res |-> Ok]
      ELSE [st |-> st, res |-> "CannotDeleteRoot"]

\* checked_value with the digit limit off by one: digits > 16.
checked_valueLoose(prev, val) ==
  IF ~IsFinite(val) THEN [ok |-> FALSE, err |-> "OutofBounds", val |-> val]
  ELSE LET digits == IF LtV(Zero, AbsV(val)) THEN Log10Floor(val) ELSE 0
       IN  IF digits > 16 THEN [ok |-> FALSE, err |-> "PrecisionLoss", val |-> val]
           ELSE [ok |-> TRUE, err |-> Ok, val |-> val]

\* RustyCalculator::checked_value
checked_value(prev, val) ==
  IF ~IsFinite(val) THEN [ok |-> FALSE, err |-> "OutofBounds", val |-> val]
  ELSE LET digits == IF LtV(Zero, AbsV(val)) THEN Log10Floor(val) ELSE 0
       IN  IF digits > 15 THEN [ok |-> FALSE, err |-> "PrecisionLoss", val |-> val]
           ELSE IF AboveHalfMax(val)
                THEN [ok |-> FALSE, err |-> "PrecisionLoss", val |-> val]
           ELSE [ok |-> TRUE, err |-> Ok, val |-> val]

(***************************************************************************)
(* Layer 3: the methods.                                                   *)
(***************************************************************************)

\* The arguments the callers pass, and what the console read yields.
\* start() constructs the calculator with RustyCalculator::new(0.0).
InitValues == {Zero}
Operands == {Zero, Fin(1, 10)}
ExpOperands == {Fin(-1, 0), Fin(5, -1)}
InputValues == {NaN, Fin(1, 200)}
\* input!(usize) in go_forwards: an index, or (any negative number here) a
\* line that does not parse.
Choices == -1 .. MaxNodes - 1

ArithOps ==
  {"add", "multiply", "divide", "subtract", "exp", "square_root", "square", "natural_log"}

SetSt(st) ==
  /\ heap' = st.heap
  /\ root' = st.root
  /\ current' = st.current
  /\ cache' = st.cache

NoSt == [heap |-> <<>>, root |-> None, current |-> None, cache |-> <<>>]

NoPend == [prev |-> Zero, candidate |-> Zero, pre |-> NoSt]

\* go_forwards right after a successful go_backwards, go_backwards right after a
\* successful go_forwards, recover_cache right after reset.
Paired(op) ==
  \/ op = "go_forwards" /\ call.op = "go_backwards" /\ ret = Ok
  \/ op = "go_backwards" /\ call.op = "go_forwards" /\ ret = Ok
  \/ op = "recover_cache" /\ call.op = "reset"

Called(op, arg, idx) ==
  call' = [op |-> op, arg |-> arg, idx |-> idx,
           from |-> IF op \in {"go_backwards", "go_forwards", "reset"} THEN current ELSE None,
           held |-> IF op = "clear_cache" THEN Len(cache) ELSE 0,
           paired |-> Paired(op)]

NoAcc == [valid |-> FALSE, val |-> Zero]

\* The plain accumulator: what each arithmetic operation computes from acc and x.
Replay(op, a, x) ==
  CASE op = "add" -> AddV(a, x)
    [] op = "subtract" -> SubV(a, x)
    [] op = "multiply" -> MulV(a, x)
    [] op = "divide" -> DivV(a, x)
    [] op = "exp" -> PowV(a, x)
    [] op = "square" -> MulV(a, a)
    [] op = "square_root" -> SqrtV(a)
    [] op = "natural_log" -> LnV(a)

\* A call that returns r and leaves the calculator in state st.
Returns(op, arg, idx, st, r) ==
  /\ pc = "idle"
  /\ Called(op, arg, idx)
  /\ SetSt(st)
  /\ ret' = r
  /\ acc' = NoAcc
  /\ UNCHANGED <<pc, pend>>

\* The early return Err(e) of an arithmetic method, before any node is made.
EarlyErr(op, arg, e) == Returns(op, arg, 0, St, e)

\* The insert every arithmetic method makes before it validates: the new node
\* holds the candidate, current moves to it, checked_value is still to run.
Optimistic(op, arg, prev, candidate) ==
  /\ pc = "idle"
  /\ CanAlloc(heap)
  /\ Called(op, arg, 0)
  /\ SetSt(InsertNode(St, candidate))
  /\ pc' = "validate"
  /\ pend' = [prev |-> prev, candidate |-> candidate, pre |-> St]
  /\ ret' = "pending"
  /\ UNCHANGED acc

\* result()
result == heap[current].value

add(new_value) ==
  LET prev == result
  IN  Optimistic("add", new_value, prev, AddV(prev, new_value))

multiply(new_value) ==
  LET prev == result
  IN  Optimistic("multiply", new_value, prev, MulV(prev, new_value))

\* divide without its test of the divisor.
divideUnchecked(divisor) ==
  LET previous_value == result
  IN  Optimistic("divide", divisor, previous_value, DivV(previous_value, divisor))

divide(divisor) ==
  IF EqV(divisor, Zero)
  THEN EarlyErr("divide", divisor, "DivisionByZero")
  ELSE LET previous_value == result
       IN  Optimistic("divide", divisor, previous_value, DivV(previous_value, divisor))

\* subtract with the body of add.
subtractAdds(new_value) ==
  LET prev == result
  IN  Optimistic("subtract", new_value, prev, AddV(prev, new_value))

subtract(new_value) ==
  LET prev == result
  IN  Optimistic("subtract", new_value, prev, SubV(prev, new_value))

exp(new_value) ==
  LET prev == result
  IN  Optimistic("exp", new_value, prev, PowV(prev, new_value))

square_root ==
  LET prev == result
  IN  IF LtV(prev, Zero)
      THEN EarlyErr("square_root", Zero, "OutofBounds")
      ELSE Optimistic("square_root", Zero, prev, SqrtV(prev))

square ==
  LET prev == result
  IN  Optimistic("square", Zero, prev, MulV(prev, prev))

\* natural_log with the test of square_root: prev < 0.0.
natural_logStrict ==
  LET prev == result
  IN  IF LtV(prev, Zero)
      THEN EarlyErr("natural_log", Zero, "OutofBounds")
      ELSE Optimistic("natural_log", Zero, prev, LnV(prev))

natural_log ==
  LET prev == result
  IN  IF LeV(prev, Zero)
      THEN EarlyErr("natural_log", Zero, "OutofBounds")
      ELSE Optimistic("natural_log", Zero, prev, LnV(prev))

\* The end of an arithmetic method without the self.delete() of its Err arm.
validateNoRollback ==
  /\ pc = "validate"
  /\ LET r == checked_value(pend.prev, pend.candidate)
     IN  IF r.ok
         THEN /\ SetSt([St EXCEPT !.heap[current].value = r.val])
              /\ ret' = Ok
              /\ acc' = IF acc.valid
                        THEN [acc EXCEPT !.val = Replay(call.op, @, call.arg)]
                        ELSE NoAcc
         ELSE /\ SetSt(St)
              /\ ret' = r.err
              /\ acc' = NoAcc
  /\ pc' = "idle"
  /\ pend' = NoPend
  /\ UNCHANGED call

\* The end of every arithmetic method: match checked_value(prev, candidate),
\* Ok(valid) stores valid in current, Err(e) deletes current and returns e.
validate ==
  /\ pc = "validate"
  /\ LET r == checked_value(pend.prev, pend.candidate)
     IN  IF r.ok
         THEN /\ SetSt([St EXCEPT !.heap[current].value = r.val])
              /\ ret' = Ok
              /\ acc' = IF acc.valid
                        THEN [acc EXCEPT !.val = Replay(call.op, @, call.arg)]
                        ELSE NoAcc
         ELSE /\ SetSt(DeleteOf(St).st)
              /\ ret' = r.err
              /\ acc' = NoAcc
  /\ pc' = "idle"
  /\ pend' = NoPend
  /\ UNCHANGED call

\* input passing its value through checked_value as the arithmetic methods do.
inputChecked(new_value) ==
  /\ CanAlloc(heap)
  /\ LET r == checked_value(result, new_value)
     IN  IF r.ok
         THEN Returns("input", new_value, 0, InsertNode(St, r.val), Ok)
         ELSE Returns("input", new_value, 0, St, r.err)

input(new_value) ==
  /\ CanAlloc(heap)
  /\ Returns("input", new_value, 0, InsertNode(St, new_value), Ok)

delete ==
  LET d == DeleteOf(St)
  IN  Returns("delete", Zero, 0, d.st, d.res)

\* go_forwards counting the children from the last one.
GoForwardsToFromEnd(children, choice) ==
  IF choice < 0
  THEN Returns("go_forwards", Zero, choice, St, "InvalidChildIndex")
  ELSE IF choice >= Len(children)
  THEN Returns("go_forwards", Zero, choice, St, "InvalidChildIndex")
  ELSE Returns("go_forwards", Zero, choice,
               Drop([St EXCEPT !.current = children[Len(children) - choice]]), Ok)

\* The part of go_forwards after the console read, choice being the line read.
GoForwardsTo(children, choice) ==
  IF choice < 0
  THEN Returns("go_forwards", Zero, choice, St, "InvalidChildIndex")
  ELSE IF choice >= Len(children)
  THEN Returns("go_forwards", Zero, choice, St, "InvalidChildIndex")
  ELSE Returns("go_forwards", Zero, choice,
               Drop([St EXCEPT !.current = children[choice + 1]]), Ok)

\* go_forwards: without children it returns before it reads the console.
go_forwards ==
  LET children == heap[current].child_item
  IN  IF children = <<>>
      THEN Returns("go_forwards", Zero, 0, St, "CannotGoBackwards")
      ELSE \E choice \in Choices : GoForwardsTo(children, choice)

\* go_backwards with the body of delete, which it resembles line by line.
go_backwardsDeletes ==
  LET d == DeleteOf(St)
  IN  Returns("go_backwards", Zero, 0, d.st,
              IF d.res = Ok THEN Ok ELSE "CannotGoBackwards")

\* go_backwards going all the way up to root.
go_backwardsToRoot ==
  LET p == heap[current].parent
  IN  IF p # None /\ Upgrade(heap, p)
      THEN Returns("go_backwards", Zero, 0, Drop([St EXCEPT !.current = root]), Ok)
      ELSE Returns("go_backwards", Zero, 0, St, "CannotGoBackwards")

go_backwards ==
  LET p == heap[current].parent
  IN  IF p # None /\ Upgrade(heap, p)
      THEN Returns("go_backwards", Zero, 0, Drop([St EXCEPT !.current = p]), Ok)
      ELSE Returns("go_backwards", Zero, 0, St, "CannotGoBackwards")

\* snapshot pushing the node current is on instead of root.
SnapshotOfCurrent(st) == [st EXCEPT !.cache = Append(@, st.current)]

\* snapshot as a function of the state
SnapshotOf(st) == [st EXCEPT !.cache = Append(@, st.root)]

snapshot ==
  /\ Len(cache) < MaxCache
  /\ Returns("snapshot", Zero, 0, SnapshotOf(St), Ok)

\* clear_cache that spares the oldest snapshot.
clear_cacheKeepsOldest ==
  Returns("clear_cache", Zero, 0,
          Drop([St EXCEPT !.cache = IF @ = <<>> THEN <<>> ELSE <<@[1]>>]), Ok)

clear_cache == Returns("clear_cache", Zero, 0, Drop([St EXCEPT !.cache = <<>>]), Ok)

\* The loop of recover_cache: up the parent links while they upgrade.
RECURSIVE SearchNode(_, _)
SearchNode(h, n) ==
  LET p == h[n].parent
  IN  IF p # None /\ Upgrade(h, p) THEN SearchNode(h, p) ELSE n

\* recover_cache without self.root = search_node.
recover_cacheKeepsRoot ==
  IF cache # <<>>
  THEN LET cached_node == cache[Len(cache)]
       IN  Returns("recover_cache", Zero, 0,
                   Drop([St EXCEPT !.cache = SubSeq(@, 1, Len(@) - 1),
                                   !.current = cached_node]),
                   Ok)
  ELSE Returns("recover_cache", Zero, 0, St, "CannotDeleteRoot")

\* recover_cache taking the oldest snapshot instead of the newest.
recover_cacheFifo ==
  IF cache # <<>>
  THEN LET cached_node == cache[1]
       IN  Returns("recover_cache", Zero, 0,
                   Drop([St EXCEPT !.cache = Tail(@),
                                   !.current = cached_node,
                                   !.root = SearchNode(heap, cached_node)]),
                   Ok)
  ELSE Returns("recover_cache", Zero, 0, St, "CannotDeleteRoot")

\* recover_cache that refuses to pop the last snapshot.
recover_cacheKeepsLast ==
  IF Len(cache) > 1
  THEN LET cached_node == cache[Len(cache)]
       IN  Returns("recover_cache", Zero, 0,
                   Drop([St EXCEPT !.cache = SubSeq(@, 1, Len(@) - 1),
                                   !.current = cached_node,
                                   !.root = SearchNode(heap, cached_node)]),
                   Ok)
  ELSE Returns("recover_cache", Zero, 0, St, "CannotDeleteRoot")

recover_cache ==
  IF cache # <<>>
  THEN LET cached_node == cache[Len(cache)]
       IN  Returns("recover_cache", Zero, 0,
                   Drop([St EXCEPT !.cache = SubSeq(@, 1, Len(@) - 1),
                                   !.current = cached_node,
                                   !.root = SearchNode(heap, cached_node)]),
                   Ok)
  ELSE Returns("recover_cache", Zero, 0, St, "CannotDeleteRoot")

\* reset without self.root = Rc::clone(&new_root).
resetKeepsRoot ==
  /\ Len(cache) < MaxCache
  /\ CanAlloc(heap)
  /\ LET s1 == SnapshotOf(St)
         n == FreshId(s1.heap)
         h == [k \in DOMAIN s1.heap \cup {n} |-> IF k = n THEN Node(Zero, None) ELSE s1.heap[k]]
     IN  Returns("reset", Zero, 0, Drop([s1 EXCEPT !.heap = h, !.current = n]), Ok)

\* reset without its call of snapshot.
resetNoSnapshot ==
  /\ Len(cache) < MaxCache
  /\ CanAlloc(heap)
  /\ LET n == FreshId(heap)
         h == [k \in DOMAIN heap \cup {n} |-> IF k = n THEN Node(Zero, None) ELSE heap[k]]
     IN  Returns("reset", Zero, 0, Drop([St EXCEPT !.heap = h, !.root = n, !.current = n]), Ok)

reset ==
  /\ Len(cache) < MaxCache
  /\ CanAlloc(heap)
  /\ LET s1 == SnapshotOf(St)
         n == FreshId(s1.heap)
         h == [k \in DOMAIN s1.heap \cup {n} |-> IF k = n THEN Node(Zero, None) ELSE s1.heap[k]]
     IN  Returns("reset", Zero, 0, Drop([s1 EXCEPT !.heap = h, !.root = n, !.current = n]), Ok)

\* RustyCalculator::new(rest_state)
Init ==
  \E rest_state \in InitValues :
    /\ heap = [n \in {1} |-> Node(rest_state, None)]
    /\ root = 1
    /\ current = 1
    /\ cache = <<>>
    /\ pc = "idle"
    /\ pend = NoPend
    /\ call = [op |-> "new", arg |-> rest_state, idx |-> 0, from |-> None, held |-> 0,
               paired |-> FALSE]
    /\ ret = Ok
    /\ acc = [valid |-> TRUE, val |-> rest_state]

Next ==
  \/ \E x \in Operands : add(x)
  \/ \E x \in Operands : multiply(x)
  \/ \E x \in Operands : divide(x)
  \/ \E x \in Operands : subtract(x)
  \/ \E x \in ExpOperands : exp(x)
  \/ square_root
  \/ square
  \/ natural_log
  \/ validate
  \/ \E v \in InputValues : input(v)
  \/ delete
  \/ go_forwards
  \/ go_backwards
  \/ snapshot
  \/ clear_cache
  \/ recover_cache
  \/ reset

Spec == Init /\ [][Next]_vars

\* The calculator used without input(): every value in a node has come from
\* new(), reset() or an arithmetic method.
NextNoInput ==
  \/ \E x \in Operands : add(x)
  \/ \E x \in Operands : multiply(x)
  \/ \E x \in Operands : divide(x)
  \/ \E x \in Operands : subtract(x)
  \/ \E x \in ExpOperands : exp(x)
  \/ square_root
  \/ square
  \/ natural_log
  \/ validate
  \/ delete
  \/ go_forwards
  \/ go_backwards
  \/ snapshot
  \/ clear_cache
  \/ recover_cache
  \/ reset

SpecNoInput == Init /\ [][NextNoInput]_vars

\* The validator at its limits: candidates on both sides of 10^16, the
\* non-finite ones and the repeated square, each reached as 0 + x.
CVOperands ==
  {NaN, Inf(1), Inf(-1), Zero, Fin(5, 0), Fin(1, 10), Fin(1, -300),
   Fin(999, 13), Fin(-999, 13), Fin(1, 16), Fin(-1, 16), Fin(1, 308)}

NextCV ==
  \/ \E x \in CVOperands : add(x)
  \/ square
  \/ validate

SpecCV == Init /\ [][NextCV]_vars

(***************************************************************************)
(* The claims.                                                             *)
(***************************************************************************)

\* The state the call now running, or the call about to be made, found.
BeforeCall == IF pc = "validate" THEN pend.pre ELSE St

\* The live state apart from current.
SameNodes == heap' = heap /\ root' = root /\ cache' = cache

\* C1: an arithmetic operation that returns an error leaves the calculator as it
\* found it: the same current, the same root, the same nodes with the same values,
\* parents and child lists, the same snapshot cache.
C1_FailedArithmeticRestoresState ==
  [][(pc' = "idle" /\ call'.op \in ArithOps /\ ret' # Ok) => St' = BeforeCall]_vars

\* C1, witness: a candidate the validator rejected was rolled back under a node
\* that has other children, with a snapshot in the cache.
C1_Witness ==
  /\ pc = "idle"
  /\ call.op \in ArithOps
  /\ ret = "OutofBounds"
  /\ heap[current].child_item # <<>>
  /\ cache # <<>>

\* C2: recover_cache() right after reset() succeeds and puts current back on the
\* node it was on before reset(), so that result() is what it was.
C2_ResetRecoverRestoresCurrent ==
  [][(pc = "idle" /\ call.op = "reset" /\ call'.op = "recover_cache")
       => (ret' = Ok /\ current' = call.from /\ result' = heap[call.from].value)]_vars

\* C3: while every call since new(v0) was an arithmetic operation that returned
\* Ok, result() is the value of the plain accumulator that replays them.
C3_ResultEqualsReplay == (pc = "idle" /\ acc.valid) => result = acc.val

\* C3, witness: two successful operations in a row, the second a natural_log.
C3_Witness ==
  /\ pc = "idle"
  /\ acc.valid
  /\ call.op = "natural_log"
  /\ heap[current].parent \notin {None, root}
  /\ ~IsZero(result)

\* C4: divide(d) with d = 0 returns DivisionByZero in one step, before any node
\* is inserted, and changes nothing.
C4_DivideByZeroChangesNothing ==
  [][(pc = "idle" /\ call'.op = "divide" /\ EqV(call'.arg, Zero))
       => (pc' = "idle" /\ ret' = "DivisionByZero" /\ St' = St)]_vars

\* C4, witness: divide(0) was refused away from the root.
C4_Witness ==
  /\ call.op = "divide"
  /\ EqV(call.arg, Zero)
  /\ ret = "DivisionByZero"
  /\ current # root

\* C5: square_root() on a negative current value and natural_log() on a current
\* value <= 0 return OutofBounds in one step, before any node is inserted, and
\* change nothing.
C5_DomainErrorsChangeNothing ==
  [][/\ (pc = "idle" /\ call'.op = "square_root" /\ LtV(result, Zero))
          => (pc' = "idle" /\ ret' = "OutofBounds" /\ St' = St)
     /\ (pc = "idle" /\ call'.op = "natural_log" /\ LeV(result, Zero))
          => (pc' = "idle" /\ ret' = "OutofBounds" /\ St' = St)]_vars

\* C5, witness: natural_log() was refused on a negative value, a node below the root.
C5_Witness ==
  /\ call.op = "natural_log"
  /\ ret = "OutofBounds"
  /\ LtV(result, Zero)
  /\ current # root

C7_NavigationOnlyMovesCurrent ==
  [][(pc = "idle" /\ call'.op \in {"go_backwards", "go_forwards"})
       => (SameNodes /\ pc' = "idle" /\ (ret' # Ok => current' = current))]_vars

\* C7, witness: a go_forwards() with an index past the children failed on a node
\* that has children.
C7_Witness ==
  /\ call.op = "go_forwards"
  /\ ret = "InvalidChildIndex"
  /\ call.idx >= 1
  /\ heap[current].child_item # <<>>

\* C8: after a successful go_backwards() the node left is among the children of
\* current, and go_forwards() with its index returns to it; after a successful
\* go_forwards() a go_backwards() returns to the node left.  result() is then the
\* value the node had.
C8_UndoRedoRoundTrip ==
  [][/\ (pc = "idle" /\ call.op = "go_backwards" /\ ret = Ok)
          => /\ \E i \in 1 .. Len(heap[current].child_item) :
                  heap[current].child_item[i] = call.from
             /\ \A i \in 1 .. Len(heap[current].child_item) :
                  (/\ heap[current].child_item[i] = call.from
                   /\ call'.op = "go_forwards"
                   /\ call'.idx = i - 1)
                    => (/\ ret' = Ok
                        /\ current' = call.from
                        /\ result' = heap[call.from].value)
     /\ (pc = "idle" /\ call.op = "go_forwards" /\ ret = Ok /\ call'.op = "go_backwards")
          => (/\ ret' = Ok
              /\ current' = call.from
              /\ result' = heap[call.from].value)]_vars

\* C8, witness: go_backwards() from a second child, then go_forwards() back to it.
C8_Witness ==
  /\ call.op = "go_forwards"
  /\ call.paired
  /\ ret = Ok
  /\ call.idx = 1
  /\ heap[call.from].child_item[2] = current

\* C9: go_backwards() succeeds exactly when current is not root and then moves
\* current to its parent; on root it returns CannotGoBackwards and changes nothing.
C9_GoBackwardsContract ==
  [][(pc = "idle" /\ call'.op = "go_backwards")
       => IF current # root
          THEN ret' = Ok /\ current' = heap[current].parent /\ SameNodes
          ELSE ret' = "CannotGoBackwards" /\ St' = St]_vars

\* C9, witness: a go_backwards() that succeeded from a grandchild of root.
C9_Witness ==
  /\ call.op = "go_backwards"
  /\ ret = Ok
  /\ current # root
  /\ heap[current].parent = root

\* C10: go_forwards() on a node with n >= 1 children moves current to the child
\* at index i when 0 <= i < n and changes nothing else; for i >= n or a line that
\* does not parse it returns InvalidChildIndex and changes nothing.
C10_GoForwardsContract ==
  [][(pc = "idle" /\ call'.op = "go_forwards" /\ heap[current].child_item # <<>>)
       => LET children == heap[current].child_item
              i == call'.idx
          IN  IF 0 <= i /\ i < Len(children)
              THEN ret' = Ok /\ current' = children[i + 1] /\ SameNodes
              ELSE ret' = "InvalidChildIndex" /\ St' = St]_vars

\* C10, witness: go_forwards() moved current to the second of two children.
C10_Witness ==
  /\ call.op = "go_forwards"
  /\ ret = Ok
  /\ call.idx = 1
  /\ Len(heap[call.from].child_item) = 2
  /\ heap[call.from].child_item[2] = current

\* The nodes of the tree under n.
TreeOf(h, n) == ReachFrom(h, {n}) \cap DOMAIN h

\* Every node of the set S is still allocated and holds what it held.
Kept(S) == \A n \in S : n \in DOMAIN heap' /\ heap'[n] = heap[n]

\* C11: recover_cache() returns CannotDeleteRoot exactly when the snapshot stack is
\* empty, as it is right after new() and right after clear_cache(), and otherwise
\* returns Ok; when it fails, root, current, the nodes and the stack are unchanged.
C11_RecoverFailsIffEmpty ==
  [][(pc = "idle" /\ call'.op = "recover_cache")
       => /\ (ret' = "CannotDeleteRoot") <=> (cache = <<>>)
          /\ (ret' = Ok) <=> (cache # <<>>)
          /\ call.op \in {"new", "clear_cache"} => ret' = "CannotDeleteRoot"
          /\ ret' # Ok => (St' = St /\ cache' = <<>>)]_vars

\* C11, witness: recover_cache() failed on an empty stack after an earlier reset,
\* with a tree of more than one node in place.
C11_Witness ==
  /\ call.op = "recover_cache"
  /\ ret = "CannotDeleteRoot"
  /\ cache = <<>>
  /\ root # 1
  /\ heap[root].child_item # <<>>

\* C12: clear_cache() returns Ok and leaves the snapshot stack empty however many
\* snapshots it held; root, current, result() and every node of the live tree are
\* as before; a recover_cache() right after it fails and changes nothing.
C12_ClearCacheOnlyEmptiesStack ==
  [][/\ (pc = "idle" /\ call'.op = "clear_cache")
          => /\ ret' = Ok
             /\ cache' = <<>>
             /\ root' = root
             /\ current' = current
             /\ result' = result
             /\ Kept(TreeOf(heap, root))
             /\ current \in TreeOf(heap, root)
     /\ (pc = "idle" /\ call.op = "clear_cache" /\ call'.op = "recover_cache")
          => (ret' = "CannotDeleteRoot" /\ St' = St)]_vars

\* C12, witness: clear_cache() emptied a stack of two snapshots.
C12_Witness ==
  /\ call.op = "clear_cache"
  /\ call.held = 2
  /\ ret = Ok
  /\ cache = <<>>

\* C13: reset() returns Ok; it pushes one snapshot, the root of the tree it found,
\* on top of the snapshots already there, and makes root and current one new node
\* of value 0 without parent or children, so result() is 0; every node allocated
\* before is still there with the same value, parent and children.
C13_ResetIsNonDestructive ==
  [][(pc = "idle" /\ call'.op = "reset")
       => /\ ret' = Ok
          /\ cache' = Append(cache, root)
          /\ current \in TreeOf(heap, root)
          /\ root' = current'
          /\ root' \notin DOMAIN heap
          /\ DOMAIN heap' = DOMAIN heap \cup {root'}
          /\ heap'[root'] = Node(Zero, None)
          /\ result' = Zero
          /\ Kept(DOMAIN heap)]_vars

\* C13, witness: reset() pushed a tree of two nodes on top of an earlier snapshot.
C13_Witness ==
  /\ call.op = "reset"
  /\ ret = Ok
  /\ Len(cache) = 2
  /\ heap[cache[2]].child_item # <<>>
  /\ heap[root] = Node(Zero, None)

\* C14: go_forwards() on a node without children returns CannotGoForwards, an
\* error kind of its own and not CannotGoBackwards, and changes nothing.
C14_GoForwardsNoChildrenError ==
  [][(pc = "idle" /\ call'.op = "go_forwards" /\ heap[current].child_item = <<>>)
       => /\ ret' = "CannotGoForwards"
          /\ ret' # "CannotGoBackwards"
          /\ St' = St]_vars

\* post is pre with one node more: a new node without children whose parent is
\* pre's current, appended to the children of pre's current, and current on it;
\* root, the cache and every other field of every other node as in pre.
AddsOneNode(pre, post) ==
  LET c == pre.current
      n == post.current
  IN  /\ n \notin DOMAIN pre.heap
      /\ DOMAIN post.heap = DOMAIN pre.heap \cup {n}
      /\ post.heap[n].parent = c
      /\ post.heap[n].child_item = <<>>
      /\ post.heap[c] = [pre.heap[c] EXCEPT !.child_item = Append(@, n)]
      /\ \A k \in DOMAIN pre.heap \ {c} : post.heap[k] = pre.heap[k]
      /\ post.root = pre.root
      /\ post.cache = pre.cache

\* C15: an arithmetic operation that returns Ok, and every input(v), leaves the
\* tree it found with exactly one node more: the new node has the previous current
\* as parent, comes last in that node's child list after the children already
\* there, has no children, and is the new current; nothing else changes.
C15_SuccessAddsOneLeaf ==
  [][/\ (pc = "validate" /\ ret' = Ok) => AddsOneNode(pend.pre, St')
     /\ (pc = "idle" /\ call'.op = "input") => AddsOneNode(St, St')]_vars

\* C15, witness: an arithmetic operation after an undo succeeded and its node is
\* the second child of the node current was on.
C15_Witness ==
  /\ pc = "idle"
  /\ call.op \in ArithOps
  /\ ret = Ok
  /\ heap[current].parent # None
  /\ Len(heap[heap[current].parent].child_item) = 2
  /\ heap[heap[current].parent].child_item[2] = current

\* C16: delete() with current not the root returns Ok, takes current out of its
\* parent's child list, the other children staying in their order, frees current
\* and everything under it and nothing else, and moves current to the parent;
\* with current the root it returns CannotDeleteRoot and changes nothing.
C16_DeleteContract ==
  [][(pc = "idle" /\ call'.op = "delete")
       => IF current # root
          THEN LET c == current
                   p == heap[c].parent
               IN  /\ ret' = Ok
                   /\ current' = p
                   /\ root' = root
                   /\ cache' = cache
                   /\ DOMAIN heap' = DOMAIN heap \ TreeOf(heap, c)
                   /\ heap'[p] = [heap[p] EXCEPT !.child_item = SelectSeq(@, LAMBDA x : x # c)]
                   /\ Len(heap'[p].child_item) = Len(heap[p].child_item) - 1
                   /\ \A k \in DOMAIN heap' \ {p} : heap'[k] = heap[k]
          ELSE ret' = "CannotDeleteRoot" /\ St' = St]_vars

\* C16, witness: delete() removed one of two children and the other is still
\* the child of the node current moved to.
C16_Witness ==
  /\ call.op = "delete"
  /\ ret = Ok
  /\ Len(heap[current].child_item) = 1

\* C17: the snapshots are a stack.  reset() pushes the root it replaces on top and
\* nothing else pushes but snapshot(); a recover_cache() on a stack that is not
\* empty removes the top snapshot only, pushes nothing, and makes that snapshot
\* the root, its tree being node for node what it was; and the tree of a snapshot
\* that is not the live one is changed by no operation while it waits, so that
\* recoveries return the sessions, as they were left, in the reverse order of
\* their resets.
C17_SnapshotsAreLifo ==
  [][/\ (pc = "idle" /\ call'.op = "recover_cache" /\ cache # <<>>)
          => LET top == cache[Len(cache)]
             IN  /\ ret' = Ok
                 /\ Len(cache') = Len(cache) - 1
                 /\ cache' = SubSeq(cache, 1, Len(cache) - 1)
                 /\ root' = top
                 /\ heap[top].parent = None
                 /\ Kept(TreeOf(heap, top))
                 /\ TreeOf(heap', root') = TreeOf(heap, top)
     /\ call'.op = "reset" => (cache' = Append(cache, root) /\ root' \notin Range(cache'))
     /\ call'.op \notin {"reset", "snapshot", "recover_cache", "clear_cache"} => cache' = cache
     /\ \A i \in 1 .. Len(cache) :
          (cache[i] # root /\ cache[i] \in Range(cache')) => Kept(TreeOf(heap, cache[i]))]_vars

\* C17, witness: with the snapshots of two sessions on the stack, the newer one a
\* tree of two nodes, a recover_cache() brought the newer session back and left
\* the older one on the stack.
C17_Witness ==
  /\ call.op = "recover_cache"
  /\ ret = Ok
  /\ Len(cache) = 1
  /\ root # cache[1]
  /\ heap[root].child_item # <<>>

\* How often n occurs in the sequence q.
Occurrences(q, n) == Cardinality({i \in 1 .. Len(q) : q[i] = n})

\* The node k parent links above n, or the parentless node met before that.
RECURSIVE AncestorOf(_, _, _)
AncestorOf(h, n, k) ==
  IF k = 0 \/ h[n].parent = None \/ h[n].parent \notin DOMAIN h
  THEN n
  ELSE AncestorOf(h, h[n].parent, k - 1)

\* C18: in every state the nodes reachable from root form a tree that holds
\* current: root has no parent; every other node has a parent, which is a node of
\* the tree; a node occurs in the child list of p once if its parent link is p and
\* not at all otherwise; and the parent links lead from every node to root in
\* fewer steps than there are nodes.
C18_LiveTreeWellFormed ==
  LET T == TreeOf(heap, root)
  IN  /\ root \in T
      /\ current \in T
      /\ heap[root].parent = None
      /\ \A n \in T \ {root} : heap[n].parent \in T
      /\ \A p \in T : \A n \in DOMAIN heap :
            Occurrences(heap[p].child_item, n) = IF heap[n].parent = p THEN 1 ELSE 0
      /\ \A n \in T : AncestorOf(heap, n, Cardinality(T) - 1) = root

\* C18, witness: a live tree of three nodes, root with two children, current on
\* the second.
C18_Witness ==
  /\ pc = "idle"
  /\ Len(heap[root].child_item) = 2
  /\ current = heap[root].child_item[2]

\* C19: input(v) returns Ok in one step for every v, also one checked_value
\* refuses (not finite, or of magnitude 10^16 and more): a new node holds v,
\* result() is v, and the node is not taken back.
C19_InputBypassesValidation ==
  [][(pc = "idle" /\ call'.op = "input")
       => /\ pc' = "idle"
          /\ ret' = Ok
          /\ current' \notin DOMAIN heap
          /\ DOMAIN heap' = DOMAIN heap \cup {current'}
          /\ heap'[current'].value = call'.arg
          /\ result' = call'.arg]_vars

\* C19, witness: the values checked_value refuses have been entered one on top
\* of the other: current holds 1e200 and its parent NaN, or the reverse.
C19_Witness ==
  /\ call.op = "input"
  /\ ret = Ok
  /\ ~checked_value(Zero, result).ok
  /\ heap[current].parent # None
  /\ ~checked_value(Zero, heap[heap[current].parent].value).ok
  /\ heap[heap[current].parent].value # result

\* The symbolic tag of each arithmetic operation.
LabelOf(op) ==
  CASE op = "add" -> "+"
    [] op = "subtract" -> "-"
    [] op = "multiply" -> "*"
    [] op = "divide" -> "/"
    [] op = "exp" -> "^"
    [] op = "square" -> "sqr"
    [] op = "square_root" -> "sqrt"
    [] op = "natural_log" -> "ln"

\* C20: the node a successful arithmetic operation leaves current on has a label,
\* the symbol of that operation.
C20_NodesCarryOperationLabel ==
  (pc = "idle" /\ call.op \in ArithOps /\ ret = Ok)
    => /\ "label" \in DOMAIN heap[current]
       /\ heap[current].label = LabelOf(call.op)

\* C21: in every state current is a node of the tree under root, reached from
\* root through child lists; unless it is root, its parent link names a node
\* that is allocated, and that node has current among its children.
C21_CurrentInLiveTree ==
  /\ current \in DOMAIN heap
  /\ current \in TreeOf(heap, root)
  /\ current # root =>
       /\ heap[current].parent # None
       /\ Upgrade(heap, heap[current].parent)
       /\ current \in Range(heap[heap[current].parent].child_item)

\* C21, witness: a delete() two levels below root has left current on a child
\* of root.
C21_Witness ==
  /\ call.op = "delete"
  /\ ret = Ok
  /\ current # root
  /\ heap[current].parent = root

Accepted(v) == IsFinite(v) /\ LtV(AbsV(v), Fin(1, 16))

\* C23: without input(), while no call is running every node, of the live tree
\* and of the snapshots, holds a finite value of magnitude below 10^16; while an
\* arithmetic call is running the only node that may hold another value is the
\* one it has just inserted, which holds its candidate.
C23_OnlyAcceptedValuesStay ==
  /\ pc = "idle" => \A n \in DOMAIN heap : Accepted(heap[n].value)
  /\ pc = "validate" =>
       /\ \A n \in DOMAIN heap \ {current} : Accepted(heap[n].value)
       /\ heap[current].value = pend.candidate
       /\ current \notin DOMAIN pend.pre.heap

\* C23, witness: square() on 1e10 was refused and rolled back, with a snapshot
\* in the cache; the tree is back to the nodes with accepted values.
C23_Witness ==
  /\ pc = "idle"
  /\ call.op = "square"
  /\ ret = "PrecisionLoss"
  /\ result = Fin(1, 10)
  /\ cache # <<>>
  /\ current # root
====
